---- MODULE Spec2Model ----
(***************************************************************************)
(* Model of the YouTube dashboard backend (server.js): the OAuth2 token    *)
(* freshness check, the refresh operation, and the request handlers built  *)
(* around them.  Every handler is cut at its awaits: one action runs the   *)
(* synchronous code from the arrival of a request (or the completion of an *)
(* awaited external call) up to the next external call or the response.    *)
(***************************************************************************)
EXTENDS Integers, Sequences, FiniteSets, TLC

(* ---------------- bounds of the model ---------------- *)
MaxTime == 3
MaxTTL == 1
MaxTok == 1
Pad == 1

(* ---------------- program constants ---------------- *)
MaxTextLen == 10000
\* the longest Activity Log that GET /api/logs is applied to on its own
MaxLog == 3
\* the most notes, and the longest note text and query string, that
\* GET /api/notes is applied to on its own
MaxNotes == 1
MaxNoteLen == 2

(* ---------------- values ---------------- *)
\* JavaScript undefined, for number- and token-valued fields
Undefined == -1
\* JavaScript undefined, for string-valued request fields
undefined == "undefined"

\* two requests are handled concurrently
Reqs == {1, 2}
Tokens == 1..MaxTok
\* refresh token 1 comes from process.env.REFRESH_TOKEN, 2 from the consent flow
EnvRefreshToken == 1
OAuthRefreshToken == 2

Truthy(v) == v # Undefined /\ v # 0
FalsyStr(s) == s = undefined \/ s = ""

Endpoints == {"GET /api/video", "PUT /api/video", "POST /api/video/comment",
              "POST /api/comment/reply", "DELETE /api/comment",
              "GET /oauth2callback", "POST /api/notes",
              "GET /login", "GET /api/health", "GET /api/notes", "GET /api/logs"}
\* request 1 may be any request; the request handled concurrently with it is
\* one of the requests without a body
Serves(r) ==
    IF r = 1 THEN Endpoints
    ELSE {"GET /api/video", "DELETE /api/comment", "GET /oauth2callback"}
Protected == {"GET /api/video", "PUT /api/video", "POST /api/video/comment",
              "POST /api/comment/reply", "DELETE /api/comment"}

(* A comment text is kept as the lengths of its leading whitespace, of the   *)
(* span from its first to its last non-whitespace character, and of its      *)
(* trailing whitespace; an all-whitespace text has body = 0 and trail = 0.   *)
NoText == [given |-> FALSE, lead |-> 0, body |-> 0, trail |-> 0]
BodyLens == {0, 1} \cup ((MaxTextLen - Pad - 1)..(MaxTextLen + 1))
Texts == {NoText} \cup
         {[given |-> TRUE, lead |-> l, body |-> b, trail |-> t] :
             l \in 0..Pad, b \in BodyLens, t \in 0..Pad}
WellFormedText(x) == x.given /\ x.body = 0 => x.trail = 0
TextInputs == {x \in Texts : WellFormedText(x)}
\* the texts the concurrent specification draws from: absent, blank, one
\* character, and one character more than the limit
FewTexts == {NoText,
             [given |-> TRUE, lead |-> 1, body |-> 0, trail |-> 0],
             [given |-> TRUE, lead |-> 0, body |-> 1, trail |-> 0],
             [given |-> TRUE, lead |-> 0, body |-> MaxTextLen, trail |-> 1]}
Length(x) == x.lead + x.body + x.trail
TrimLength(x) == x.body

Titles == {undefined, "", "T"}
\* the bodies {title, description} of an update request
Bodies == [title : Titles, description : Titles]
\* the bodies the concurrent specification draws from: nothing supplied, only
\* empty strings, both fields, and a title with an empty description
FewBodies == {[title |-> undefined, description |-> undefined],
              [title |-> "", description |-> ""],
              [title |-> "T", description |-> "T"],
              [title |-> "T", description |-> ""]}

\* the snippet videos.list returns for the video, and no snippet
CurrentSnippet == [title |-> "T0", description |-> "D0", categoryId |-> "22"]
NoSnippet == [title |-> undefined, description |-> undefined, categoryId |-> undefined]

\* the comment ids a delete request can name (req.params.id)
CommentIds == {1, 2}
\* request 1 names any comment, the request handled concurrently with it
\* names comment 1: the same comment or another one
IdsOf(r) == IF r = 1 THEN CommentIds ELSE {1}

\* a note text and a query string are sequences of these characters
Chars == {"a", "A", "."}
\* the text of the note that POST /api/notes stores
NoteText == <<"a">>
\* the query strings of GET /api/notes in the full model
NoQuery == [given |-> FALSE, chars |-> <<>>]
Query(s) == [given |-> TRUE, chars |-> s]
FewQueries == {NoQuery, Query(<<"a">>)}

(* Errors thrown by the platform client: a status code and a message, the   *)
(* message kept as the set of the marker substrings it contains.            *)
Markers == {"commentsDisabled", "videoNotFound", "forbidden"}
Codes == {400, 401, 403, 404, 500}
NoError == [code |-> 0, message |-> {}]
PlatformErrors ==
    {[code |-> c, message |-> {}] : c \in Codes} \cup
    {[code |-> 400, message |-> {m}] : m \in Markers} \cup
    {[code |-> 400, message |-> {"videoNotFound", "forbidden"}],
     [code |-> 403, message |-> {"commentsDisabled"}]}
\* an error of the document store: it carries no HTTP status code
StoreError == [code |-> Undefined, message |-> {"store"}]
Includes(message, s) == s \in message

NoCreds == [access_token |-> Undefined, expiry_date |-> Undefined,
            refresh_token |-> Undefined]

VARIABLES
    credentials,   \* oauth2Client.credentials: the Token State
    now,           \* Date.now()
    log,           \* the Log collection, in creation order
    notes,         \* the Note collection
    req,           \* the requests being handled, one record per request
    comments       \* the platform: ids of the comments that exist

vars == <<credentials, now, log, notes, req, comments>>

IdleReq ==
    [pc |-> "idle", ep |-> "none", id |-> 0, q |-> NoQuery, resBody |-> <<>>,
     snippet |-> NoSnippet,
     title |-> undefined, description |-> undefined, text |-> NoText,
     tokenValid |-> "unset", refreshed |-> "unset",
     error |-> NoError, statusCode |-> 0, resStatus |-> 0,
     ensureCalls |-> 0, refreshCalls |-> 0, platformCalls |-> 0,
     platformFailed |-> FALSE, logWrites |-> 0]

Init ==
    /\ \E rt \in {Undefined, EnvRefreshToken} :
          credentials = [NoCreds EXCEPT !.refresh_token = rt]
    /\ now = 1
    /\ log = <<>>
    /\ notes = <<>>
    /\ req = [r \in Reqs |-> IdleReq]
    /\ comments = CommentIds

(* ---------------- Token Manager ---------------- *)

\* the test with the comparison written as Date.now() > expiry
NeedsRefreshLate(accessToken, expiry, t) ==
    ~Truthy(accessToken) \/ (Truthy(expiry) /\ t > expiry)

\* the test of ensureValidToken: !accessToken || (expiry && Date.now() >= expiry)
NeedsRefresh(accessToken, expiry, t) ==
    ~Truthy(accessToken) \/ (Truthy(expiry) /\ t >= expiry)

\* res.status(code).json(...): the request is answered and the handler's
\* locals go out of scope
Respond(q, code) ==
    [q EXCEPT !.pc = "done", !.resStatus = code,
              !.error = NoError, !.statusCode = 0]

\* a call youtube.<op>(...) is issued
CallPlatform(q, op) == [q EXCEPT !.pc = op, !.platformCalls = @ + 1]

\* the update handler without its preliminary videos.list
FirstCallNoRead(ep) ==
    CASE ep = "GET /api/video" -> "videos.list"
      [] ep = "PUT /api/video" -> "videos.update"
      [] ep = "POST /api/video/comment" -> "videos.list"
      [] ep = "POST /api/comment/reply" -> "comments.insert"
      [] ep = "DELETE /api/comment" -> "comments.delete"

FirstCall(ep) ==
    CASE ep = "GET /api/video" -> "videos.list"
      [] ep = "PUT /api/video" -> "videos.list"
      [] ep = "POST /api/video/comment" -> "videos.list"
      [] ep = "POST /api/comment/reply" -> "comments.insert"
      [] ep = "DELETE /api/comment" -> "comments.delete"

\* the handler without its `if (!tokenValid) return res.status(401)`
TokenCheckedUnguarded(q) == CallPlatform(q, FirstCall(q.ep))

\* a handler that calls ensureValidToken a second time when it returned false
TokenCheckedRetry(q) ==
    IF q.tokenValid = "false"
    THEN IF q.refreshCalls < 2
         THEN [q EXCEPT !.pc = "refreshAccessToken", !.refreshCalls = @ + 1,
                        !.tokenValid = "unset", !.refreshed = "unset"]
         ELSE Respond(q, 401)
    ELSE CallPlatform(q, FirstCall(q.ep))

\* the handler's code after `const tokenValid = await ensureValidToken()`
TokenChecked(q) ==
    IF q.tokenValid = "false"
    THEN Respond(q, 401)
    ELSE CallPlatform(q, FirstCall(q.ep))

\* ensureValidToken up to its await: either it returns true at once, or it
\* calls refreshAccessToken, which issues the provider request and suspends
ensureValidToken(q, c, t) ==
    LET q1 == [q EXCEPT !.ensureCalls = @ + 1]
        accessToken == c.access_token
        expiry == c.expiry_date
    IN  IF NeedsRefresh(accessToken, expiry, t)
        THEN [q1 EXCEPT !.pc = "refreshAccessToken", !.refreshCalls = @ + 1]
        ELSE TokenChecked([q1 EXCEPT !.tokenValid = "true"])

\* credentials the provider can answer a refresh or a code exchange with
Expiries(t) == {Undefined} \cup {t + ttl : ttl \in 1..MaxTTL}

\* a refresh that stores the new access token but keeps the old expiry
RefreshedCredentialsStaleExpiry(c, tok, exp) ==
    [access_token |-> tok, expiry_date |-> c.expiry_date,
     refresh_token |-> c.refresh_token]

\* a refresh that leaves in place the access token another refresh stored
RefreshedCredentialsKeepFirst(c, tok, exp) ==
    IF c.access_token # Undefined THEN c
    ELSE [access_token |-> tok, expiry_date |-> exp,
          refresh_token |-> c.refresh_token]

\* oauth2Client.refreshAccessToken() resolves; setCredentials(credentials)
RefreshedCredentials(c, tok, exp) ==
    [access_token |-> tok, expiry_date |-> exp, refresh_token |-> c.refresh_token]

refreshAccessTokenOk(r) ==
    /\ req[r].pc = "refreshAccessToken"
    /\ credentials.refresh_token # Undefined
    /\ \E tok \in Tokens, exp \in Expiries(now) :
          LET tokens == RefreshedCredentials(credentials, tok, exp)
              q == [req[r] EXCEPT !.refreshed = "true", !.tokenValid = "true"]
          IN  /\ credentials' = tokens
              /\ req' = [req EXCEPT ![r] = TokenChecked(q)]
    /\ UNCHANGED <<now, log, notes, comments>>

\* a failed refresh that drops the stale access token
FailedCredentialsCleared(c) ==
    [c EXCEPT !.access_token = Undefined, !.expiry_date = Undefined]

\* a failed refresh that invalidates Token State for good
FailedCredentialsInvalid(c) == [c EXCEPT !.refresh_token = Undefined]

\* what a failed refresh leaves in oauth2Client.credentials
FailedCredentials(c) == c

refreshAccessTokenFails(r) ==
    /\ req[r].pc = "refreshAccessToken"
    /\ credentials' = FailedCredentials(credentials)
    /\ LET q == [req[r] EXCEPT !.refreshed = "false", !.tokenValid = "false"]
       IN  req' = [req EXCEPT ![r] = TokenChecked(q)]
    /\ UNCHANGED <<now, log, notes, comments>>

(* ---------------- API Gateway: validation and error mapping ---------------- *)

\* a validation that only rejects fields that are missing
NoFieldsMissingOnly(title, description) ==
    title = undefined /\ description = undefined

\* !title && !description
NoFields(title, description) == FalsyStr(title) /\ FalsyStr(description)

\* !text || text.trim().length === 0
TextRequired(x) == ~x.given \/ Length(x) = 0 \/ TrimLength(x) = 0

\* the length test written as text.length >= 10000
TextTooLongInclusive(x) == Length(x) >= MaxTextLen

\* text.length > 10000
TextTooLong(x) == Length(x) > MaxTextLen

\* the reply and delete mapping without its 404 branch
StatusForNo404(ep, e) ==
    CASE ep \in {"GET /api/video", "PUT /api/video"} -> 500
      [] ep = "POST /api/video/comment" ->
            IF e.code = 400
            THEN IF Includes(e.message, "commentsDisabled") THEN 400
                 ELSE IF Includes(e.message, "videoNotFound") THEN 404
                 ELSE IF Includes(e.message, "forbidden") THEN 403
                 ELSE 400
            ELSE IF e.code = 401 THEN 401
            ELSE IF e.code = 403 THEN 403
            ELSE 500
      [] ep \in {"POST /api/comment/reply", "DELETE /api/comment"} ->
            IF e.code = 400 THEN 400
            ELSE IF e.code = 401 THEN 401
            ELSE IF e.code = 403 THEN 403
            ELSE 500

\* the status code each catch block computes from the error it caught
StatusFor(ep, e) ==
    CASE ep \in {"GET /api/video", "PUT /api/video"} -> 500
      [] ep = "POST /api/video/comment" ->
            IF e.code = 400
            THEN IF Includes(e.message, "commentsDisabled") THEN 400
                 ELSE IF Includes(e.message, "videoNotFound") THEN 404
                 ELSE IF Includes(e.message, "forbidden") THEN 403
                 ELSE 400
            ELSE IF e.code = 401 THEN 401
            ELSE IF e.code = 403 THEN 403
            ELSE 500
      [] ep \in {"POST /api/comment/reply", "DELETE /api/comment"} ->
            IF e.code = 400 THEN 400
            ELSE IF e.code = 401 THEN 401
            ELSE IF e.code = 403 THEN 403
            ELSE IF e.code = 404 THEN 404
            ELSE 500

SuccessTag(ep) ==
    CASE ep = "GET /api/video" -> "FETCH_VIDEO"
      [] ep = "PUT /api/video" -> "UPDATE_VIDEO"
      [] ep = "POST /api/video/comment" -> "ADD_COMMENT"
      [] ep = "POST /api/comment/reply" -> "REPLY_COMMENT"
      [] ep = "DELETE /api/comment" -> "DELETE_COMMENT"
      [] ep = "POST /api/notes" -> "ADD_NOTE"

ErrorTag(ep) ==
    CASE ep = "GET /api/video" -> "FETCH_VIDEO_ERROR"
      [] ep = "PUT /api/video" -> "UPDATE_VIDEO_ERROR"
      [] ep = "POST /api/video/comment" -> "ADD_COMMENT_ERROR"
      [] ep = "POST /api/comment/reply" -> "REPLY_COMMENT_ERROR"
      [] ep = "DELETE /api/comment" -> "DELETE_COMMENT_ERROR"

SuccessEntry(ep) == [action |-> SuccessTag(ep), hasError |-> FALSE, error |-> {}]
ErrorEntry(ep, e) == [action |-> ErrorTag(ep), hasError |-> TRUE, error |-> e.message]

\* the document Log.create stores at time t: the schema adds createdAt
Created(doc, t) ==
    [action |-> doc.action, hasError |-> doc.hasError, error |-> doc.error,
     createdAt |-> t]

\* the createdAt a new entry of log l can get: the store's clock, of which
\* only the order matters, reads what it read for the last entry or more
Stamps(l) ==
    IF l = <<>> THEN {0}
    ELSE {l[Len(l)].createdAt, l[Len(l)].createdAt + 1}

\* the permutations of 1..n
Perms(n) == {p \in [1..n -> 1..n] : \A i, j \in 1..n : i # j => p[i] # p[j]}

\* a sort that orders by createdAt ascending
SortedByCreatedAtAsc(s) ==
    {[i \in 1..Len(s) |-> s[p[i]]] : p \in
        {p \in Perms(Len(s)) : \A i, j \in 1..Len(s) :
            i < j => s[p[i]].createdAt <= s[p[j]].createdAt}}

\* Log.find().sort({createdAt: -1}): the entries in an order in which
\* createdAt never increases; entries of equal createdAt come in any order
SortedByCreatedAtDesc(s) ==
    {[i \in 1..Len(s) |-> s[p[i]]] : p \in
        {p \in Perms(Len(s)) : \A i, j \in 1..Len(s) :
            i < j => s[p[i]].createdAt >= s[p[j]].createdAt}}

\* String.toLowerCase on one character
Lower(c) == IF c = "A" THEN "a" ELSE c

\* the pattern p, a regular expression with option i, matches s at offset i:
\* a dot matches any character, a letter matches itself in either case
MatchesAt(p, s, i) ==
    /\ i + Len(p) - 1 <= Len(s)
    /\ \A k \in 1..Len(p) : p[k] = "." \/ Lower(p[k]) = Lower(s[i + k - 1])

\* {text: {$regex: q, $options: "i"}}: the unanchored pattern q matches the text
RegexMatches(q, text) == \E i \in 1..(Len(text) + 1) : MatchesAt(q, text, i)

\* q ? Note.find({text: {$regex: q, $options: "i"}}) : Note.find()
FindNotes(q, ns) ==
    IF ~q.given \/ q.chars = <<>> THEN ns
    ELSE SelectSeq(ns, LAMBDA n : RegexMatches(q.chars, n.text))

\* a catch block that answers without writing the error entry
CatchWithoutLog(q, e) ==
    IF q.ep = "POST /api/notes"
    THEN Respond([q EXCEPT !.error = e], 500)
    ELSE Respond([q EXCEPT !.error = e], StatusFor(q.ep, e))

\* a catch block that answers 200 when only the log write failed
CatchStoreErrorAnswers200(q, e) ==
    IF e = StoreError /\ q.pc = "Log.create"
    THEN Respond([q EXCEPT !.error = e], 200)
    ELSE IF q.ep = "POST /api/notes"
    THEN Respond([q EXCEPT !.error = e], 500)
    ELSE [q EXCEPT !.error = e, !.statusCode = StatusFor(q.ep, e),
                   !.pc = "catch Log.create"]

\* the catch block of a handler, up to its await: the protected handlers
\* compute the status and start writing the error entry, the notes handler
\* answers 500 at once
Catch(q, e) ==
    IF q.ep = "POST /api/notes"
    THEN Respond([q EXCEPT !.error = e], 500)
    ELSE [q EXCEPT !.error = e, !.statusCode = StatusFor(q.ep, e),
                   !.pc = "catch Log.create"]

(* ---------------- API Gateway: arrival of a request ---------------- *)

GetVideo(r) ==
    /\ req[r].pc = "idle"
    /\ "GET /api/video" \in Serves(r)
    /\ LET q == [req[r] EXCEPT !.ep = "GET /api/video"]
       IN  req' = [req EXCEPT ![r] = ensureValidToken(q, credentials, now)]
    /\ UNCHANGED <<credentials, now, log, notes, comments>>

\* PUT /api/video/:id with its body drawn from B
UpdateRequest(r, B) ==
    /\ req[r].pc = "idle"
    /\ "PUT /api/video" \in Serves(r)
    /\ \E body \in B :
          LET title == body.title
              description == body.description
              q == [req[r] EXCEPT !.ep = "PUT /api/video", !.title = title,
                                  !.description = description]
          IN  req' = [req EXCEPT ![r] =
                        IF NoFields(title, description)
                        THEN Respond(q, 400)
                        ELSE ensureValidToken(q, credentials, now)]
    /\ UNCHANGED <<credentials, now, log, notes, comments>>

UpdateVideo(r) == UpdateRequest(r, FewBodies)

\* the validation shared by the add-comment and the reply handlers
TextHandler(q, c, t) ==
    IF TextRequired(q.text) THEN Respond(q, 400)
    ELSE IF TextTooLong(q.text) THEN Respond(q, 400)
    ELSE ensureValidToken(q, c, t)

\* a request with body {text} arrives at endpoint ep, text drawn from T
TextRequest(r, ep, T) ==
    /\ req[r].pc = "idle"
    /\ \E text \in T :
          LET q == [req[r] EXCEPT !.ep = ep, !.text = text]
          IN  req' = [req EXCEPT ![r] = TextHandler(q, credentials, now)]
    /\ UNCHANGED <<credentials, now, log, notes, comments>>

AddComment(r) ==
    /\ "POST /api/video/comment" \in Serves(r)
    /\ TextRequest(r, "POST /api/video/comment", FewTexts)

ReplyComment(r) ==
    /\ "POST /api/comment/reply" \in Serves(r)
    /\ TextRequest(r, "POST /api/comment/reply", FewTexts)

DeleteComment(r) ==
    /\ req[r].pc = "idle"
    /\ "DELETE /api/comment" \in Serves(r)
    /\ \E id \in IdsOf(r) :
          LET q == [req[r] EXCEPT !.ep = "DELETE /api/comment", !.id = id]
          IN  req' = [req EXCEPT ![r] = ensureValidToken(q, credentials, now)]
    /\ UNCHANGED <<credentials, now, log, notes, comments>>

AddNote(r) ==
    /\ req[r].pc = "idle"
    /\ "POST /api/notes" \in Serves(r)
    /\ req' = [req EXCEPT ![r] = [@ EXCEPT !.ep = "POST /api/notes",
                                           !.pc = "Note.create"]]
    /\ UNCHANGED <<credentials, now, log, notes, comments>>

OAuthCallback(r) ==
    /\ req[r].pc = "idle"
    /\ "GET /oauth2callback" \in Serves(r)
    /\ req' = [req EXCEPT ![r] = [@ EXCEPT !.ep = "GET /oauth2callback",
                                           !.pc = "getToken"]]
    /\ UNCHANGED <<credentials, now, log, notes, comments>>

\* res.redirect(oauth2Client.generateAuthUrl(...))
Login(r) ==
    /\ req[r].pc = "idle"
    /\ "GET /login" \in Serves(r)
    /\ req' = [req EXCEPT ![r] = Respond([@ EXCEPT !.ep = "GET /login"], 302)]
    /\ UNCHANGED <<credentials, now, log, notes, comments>>

\* res.json({status: "OK", ...})
Health(r) ==
    /\ req[r].pc = "idle"
    /\ "GET /api/health" \in Serves(r)
    /\ req' = [req EXCEPT ![r] = Respond([@ EXCEPT !.ep = "GET /api/health"], 200)]
    /\ UNCHANGED <<credentials, now, log, notes, comments>>

\* GET /api/notes with its query string drawn from Q
NotesRequest(r, Q) ==
    /\ req[r].pc = "idle"
    /\ "GET /api/notes" \in Serves(r)
    /\ \E q \in Q :
          req' = [req EXCEPT ![r] = [@ EXCEPT !.ep = "GET /api/notes", !.q = q,
                                               !.pc = "Note.find"]]
    /\ UNCHANGED <<credentials, now, log, notes, comments>>

GetNotes(r) == NotesRequest(r, FewQueries)

GetLogs(r) ==
    /\ req[r].pc = "idle"
    /\ "GET /api/logs" \in Serves(r)
    /\ req' = [req EXCEPT ![r] = [@ EXCEPT !.ep = "GET /api/logs",
                                           !.pc = "Log.find"]]
    /\ UNCHANGED <<credentials, now, log, notes, comments>>

(* ---------------- API Gateway: completion of an awaited call ---------------- *)

\* a || b on strings
OrElse(a, b) == IF FalsyStr(a) THEN b ELSE a

\* {...currentSnippet, title: title || currentSnippet.title,
\*  description: description || currentSnippet.description}
UpdatedSnippet(currentSnippet, title, description) ==
    [currentSnippet EXCEPT !.title = OrElse(title, currentSnippet.title),
                           !.description = OrElse(description, currentSnippet.description)]

\* what follows a videos.list that returned at least one item
AfterList(q) ==
    CASE q.ep = "GET /api/video" -> [q EXCEPT !.pc = "Log.create"]
      [] q.ep = "PUT /api/video" ->
            CallPlatform([q EXCEPT !.snippet =
                             UpdatedSnippet(CurrentSnippet, q.title, q.description)],
                         "videos.update")
      [] q.ep = "POST /api/video/comment" -> CallPlatform(q, "commentThreads.insert")

VideosListDone(r) ==
    /\ req[r].pc = "videos.list"
    /\ \/ \E e \in PlatformErrors :
            req' = [req EXCEPT ![r] = Catch([@ EXCEPT !.platformFailed = TRUE], e)]
       \/ req' = [req EXCEPT ![r] = Respond(@, 404)]
       \/ req' = [req EXCEPT ![r] = AfterList(@)]
    /\ UNCHANGED <<credentials, now, log, notes, comments>>

MutatingCalls == {"videos.update", "commentThreads.insert", "comments.insert",
                  "comments.delete"}

\* the comments left on the platform once the call of q has succeeded
AfterMutation(q, cs) ==
    IF q.pc = "comments.delete" THEN cs \ {q.id} ELSE cs

\* the platform can carry out the call of q: a comment that is gone cannot
\* be deleted again
CanSucceed(q, cs) == q.pc = "comments.delete" => q.id \in cs

MutationDone(r) ==
    /\ req[r].pc \in MutatingCalls
    /\ \/ /\ \E e \in PlatformErrors :
               req' = [req EXCEPT ![r] = Catch([@ EXCEPT !.platformFailed = TRUE], e)]
          /\ comments' = comments
       \/ /\ CanSucceed(req[r], comments)
          /\ req' = [req EXCEPT ![r] = [@ EXCEPT !.pc = "Log.create"]]
          /\ comments' = AfterMutation(req[r], comments)
    /\ UNCHANGED <<credentials, now, log, notes>>

\* await Log.create({action: <success tag>, ...}); res.json(...)
LogCreateDone(r) ==
    /\ req[r].pc = "Log.create"
    /\ \/ /\ \E t \in Stamps(log) :
               log' = Append(log, Created(SuccessEntry(req[r].ep), t))
          /\ req' = [req EXCEPT ![r] =
                        Respond([@ EXCEPT !.logWrites = @ + 1], 200)]
       \/ /\ req' = [req EXCEPT ![r] = Catch(@, StoreError)]
          /\ log' = log
    /\ UNCHANGED <<credentials, now, notes, comments>>

\* await Log.create({action: <error tag>, ...}); res.status(statusCode).json(...)
\* inside the catch block: a rejection here is caught by nothing
ErrorLogCreateDone(r) ==
    /\ req[r].pc = "catch Log.create"
    /\ \/ /\ \E t \in Stamps(log) :
               log' = Append(log, Created(ErrorEntry(req[r].ep, req[r].error), t))
          /\ req' = [req EXCEPT ![r] =
                        Respond([@ EXCEPT !.logWrites = @ + 1], @.statusCode)]
       \/ /\ req' = [req EXCEPT ![r] = [@ EXCEPT !.pc = "unhandledRejection"]]
          /\ log' = log
    /\ UNCHANGED <<credentials, now, notes, comments>>

NoteCreateDone(r) ==
    /\ req[r].pc = "Note.create"
    /\ \/ /\ notes' = Append(notes, [text |-> NoteText])
          /\ req' = [req EXCEPT ![r] = [@ EXCEPT !.pc = "Log.create"]]
       \/ /\ req' = [req EXCEPT ![r] = Catch(@, StoreError)]
          /\ notes' = notes
    /\ UNCHANGED <<credentials, now, log, comments>>

\* await Note.find(...); res.json(notes)
NoteFindDone(r) ==
    /\ req[r].pc = "Note.find"
    /\ \/ req' = [req EXCEPT ![r] =
                     Respond([@ EXCEPT !.resBody = FindNotes(req[r].q, notes)], 200)]
       \/ req' = [req EXCEPT ![r] = Respond(@, 500)]
    /\ UNCHANGED <<credentials, now, log, notes, comments>>

\* await Log.find().sort({createdAt: -1}); res.json(logs)
LogFindDone(r) ==
    /\ req[r].pc = "Log.find"
    /\ \/ \E b \in SortedByCreatedAtDesc(log) :
            req' = [req EXCEPT ![r] = Respond([@ EXCEPT !.resBody = b], 200)]
       \/ req' = [req EXCEPT ![r] = Respond(@, 500)]
    /\ UNCHANGED <<credentials, now, log, notes, comments>>

\* a failed exchange that signs the process out
RejectedExchangeSignsOut(c) == NoCreds

\* what the catch block of the callback leaves in oauth2Client.credentials
RejectedExchange(c) == c

\* oauth2Client.getToken(code) resolves or rejects
GetTokenDone(r) ==
    /\ req[r].pc = "getToken"
    /\ \/ /\ \E tok \in Tokens, exp \in Expiries(now),
                rt \in {Undefined, OAuthRefreshToken} :
                credentials' = [access_token |-> tok, expiry_date |-> exp,
                                refresh_token |-> rt]
          /\ req' = [req EXCEPT ![r] = Respond(@, 302)]
       \/ /\ credentials' = RejectedExchange(credentials)
          /\ req' = [req EXCEPT ![r] = Respond(@, 500)]
    /\ UNCHANGED <<now, log, notes, comments>>

(* ---------------- time ---------------- *)

Tick ==
    /\ now < MaxTime
    /\ now' = now + 1
    /\ UNCHANGED <<credentials, log, notes, req, comments>>

Next ==
    \/ Tick
    \/ \E r \in Reqs :
        \/ GetVideo(r)
        \/ UpdateVideo(r)
        \/ AddComment(r)
        \/ ReplyComment(r)
        \/ DeleteComment(r)
        \/ AddNote(r)
        \/ OAuthCallback(r)
        \/ Login(r)
        \/ Health(r)
        \/ GetNotes(r)
        \/ GetLogs(r)
        \/ refreshAccessTokenOk(r)
        \/ refreshAccessTokenFails(r)
        \/ VideosListDone(r)
        \/ MutationDone(r)
        \/ LogCreateDone(r)
        \/ ErrorLogCreateDone(r)
        \/ NoteCreateDone(r)
        \/ NoteFindDone(r)
        \/ LogFindDone(r)
        \/ GetTokenDone(r)

Spec == Init /\ [][Next]_vars

(* ---------------- the text validation on its own ---------------- *)
(* The add-comment and reply handlers applied to every text of TextInputs,  *)
(* at any time and in any Token State the refresh operation produces.        *)

ValidateComment(r) == TextRequest(r, "POST /api/video/comment", TextInputs)
ValidateReply(r) == TextRequest(r, "POST /api/comment/reply", TextInputs)

NextText ==
    \/ Tick
    \/ \E r \in Reqs :
        \/ ValidateComment(r)
        \/ ValidateReply(r)
        \/ refreshAccessTokenOk(r)
        \/ refreshAccessTokenFails(r)

SpecText == Init /\ [][NextText]_vars

(* ---------------- the video update on its own ---------------- *)
(* The update handler applied to every body of Bodies, at any time and in   *)
(* any Token State the refresh operation produces.                          *)

UpdateAnyBody(r) == UpdateRequest(r, Bodies)

NextUpdate ==
    \/ Tick
    \/ \E r \in Reqs :
        \/ UpdateAnyBody(r)
        \/ refreshAccessTokenOk(r)
        \/ refreshAccessTokenFails(r)
        \/ VideosListDone(r)
        \/ MutationDone(r)
        \/ LogCreateDone(r)
        \/ ErrorLogCreateDone(r)

SpecUpdate == Init /\ [][NextUpdate]_vars

(* ---------------- the logs viewer on its own ---------------- *)
(* GET /api/logs applied to every Activity Log of at most MaxLog entries   *)
(* that the handlers can have written.                                      *)

\* documents the handlers pass to Log.create
LogDocs == {SuccessEntry("GET /api/video"), SuccessEntry("POST /api/notes")}

\* the Activity Logs of at most n entries
RECURSIVE LogsOf(_)
LogsOf(n) ==
    IF n = 0 THEN {<<>>}
    ELSE LET shorter == LogsOf(n - 1)
         IN  shorter \cup
             UNION {{Append(l, Created(d, t)) : d \in LogDocs, t \in Stamps(l)} :
                       l \in {x \in shorter : Len(x) = n - 1}}

InitLogs ==
    /\ \E rt \in {Undefined, EnvRefreshToken} :
          credentials = [NoCreds EXCEPT !.refresh_token = rt]
    /\ now = 1
    /\ log \in LogsOf(MaxLog)
    /\ notes = <<>>
    /\ req = [r \in Reqs |-> IdleReq]
    /\ comments = CommentIds

NextLogs == \E r \in Reqs : GetLogs(r) \/ LogFindDone(r)

SpecLogs == InitLogs /\ [][NextLogs]_vars

(* ---------------- the notes search on its own ---------------- *)
(* GET /api/notes applied to every collection of at most MaxNotes notes and *)
(* every query string of at most MaxNoteLen characters.                     *)

\* the strings of at most n characters
Strings(n) == UNION {[1..k -> Chars] : k \in 0..n}

StoredNotes ==
    UNION {[1..k -> {[text |-> s] : s \in Strings(MaxNoteLen)}] : k \in 0..MaxNotes}

AllQueries == {NoQuery} \cup {Query(s) : s \in Strings(MaxNoteLen)}

InitNotes ==
    /\ \E rt \in {Undefined, EnvRefreshToken} :
          credentials = [NoCreds EXCEPT !.refresh_token = rt]
    /\ now = 1
    /\ log = <<>>
    /\ notes \in StoredNotes
    /\ req = [r \in Reqs |-> IdleReq]
    /\ comments = CommentIds

SearchNotes(r) == NotesRequest(r, AllQueries)

NextNotes == \E r \in Reqs : SearchNotes(r) \/ NoteFindDone(r)

SpecNotes == InitNotes /\ [][NextNotes]_vars

(* ---------------- a server that keeps receiving requests ---------------- *)
(* The Token Manager under an endless stream of protected requests: a       *)
(* request is followed until it has been refused or has issued its first    *)
(* platform call, then the next request takes its place.                    *)

\* request r is past its token check and is followed no further
NextRequest(r) ==
    /\ req[r].pc \notin {"idle", "refreshAccessToken"}
    /\ req' = [req EXCEPT ![r] = IdleReq]
    /\ UNCHANGED <<credentials, now, log, notes, comments>>

\* the steps of request r
Handles(r) ==
    \/ GetVideo(r)
    \/ DeleteComment(r)
    \/ refreshAccessTokenOk(r)
    \/ refreshAccessTokenFails(r)
    \/ NextRequest(r)

NextLive == Tick \/ \E r \in Reqs : Handles(r)

\* every request is handled and followed by another, and the provider does
\* not fail every refresh for ever
SpecLive ==
    /\ Init /\ [][NextLive]_vars
    /\ \A r \in Reqs : WF_vars(Handles(r))
    /\ SF_vars(\E r \in Reqs : refreshAccessTokenOk(r))

(* ======================= properties ======================= *)

\* Token State c holds an access token that is present and not expired at t
Usable(c, t) ==
    /\ c.access_token # Undefined
    /\ (c.expiry_date = Undefined \/ t < c.expiry_date)

\* request r issues a call to the platform in this step
IssuesPlatformCall(r) == req'[r].platformCalls = req[r].platformCalls + 1

\* ensureValidToken is called for request r in this step
CallsEnsure(r) == req'[r].ensureCalls = req[r].ensureCalls + 1

\* ensureValidToken returns for request r in this step
EnsureReturns(r) == req[r].tokenValid = "unset" /\ req'[r].tokenValid # "unset"

\* refreshAccessToken returns for request r in this step
RefreshReturns(r) == req[r].refreshed = "unset" /\ req'[r].refreshed # "unset"

\* C1: whenever a handler issues a call to the external platform, Token State
\* holds an access token that is present and not expired at that moment.
C1_FreshTokenAtEveryCall ==
    [][\A r \in Reqs : IssuesPlatformCall(r) => Usable(credentials', now')]_vars

\* C2: one call of ensureValidToken invokes refreshAccessToken exactly once if
\* the access token is absent or the expiry is present and now >= expiry;
\* otherwise it invokes it zero times and returns true; and refresh is invoked
\* nowhere else.
C2_RefreshExactlyWhenNeeded ==
    [][\A r \in Reqs :
        LET absent == credentials.access_token = Undefined
            expired == credentials.expiry_date # Undefined
                       /\ now >= credentials.expiry_date
            invoked == req'[r].refreshCalls - req[r].refreshCalls
        IN  /\ CallsEnsure(r) =>
                IF absent \/ expired
                THEN invoked = 1
                ELSE invoked = 0 /\ req'[r].tokenValid = "true"
            /\ ~CallsEnsure(r) => invoked = 0]_vars

\* a token is present but at its expiry instant, and the refresh is in flight
C2_Witness ==
    \E r \in Reqs :
        /\ req[r].pc = "refreshAccessToken" /\ req[r].refreshCalls = 1
        /\ credentials.access_token # Undefined
        /\ credentials.expiry_date = now

\* C3 as stated: ensureValidToken returns true if and only if Token State
\* holds a usable access token at the moment it returns.
C3_TrueIffUsable ==
    [][\A r \in Reqs :
        EnsureReturns(r) =>
            (req'[r].tokenValid = "true" <=> Usable(credentials', now'))]_vars

\* C3 amended: a true return implies a usable token at that moment, and the
\* return is false exactly when the refresh this call attempted failed.
C3_TrueOnlyIfUsable ==
    [][\A r \in Reqs :
        EnsureReturns(r) =>
            /\ req'[r].tokenValid = "true" => Usable(credentials', now')
            /\ req'[r].tokenValid = "false" <=>
                   (req[r].pc = "refreshAccessToken" /\ req'[r].refreshed = "false")]_vars

\* one request was refused after its refresh failed while another request's
\* refresh succeeded
C3_Witness ==
    \E r1, r2 \in Reqs :
        /\ req[r1].tokenValid = "false" /\ req[r1].refreshed = "false"
        /\ req[r2].tokenValid = "true" /\ req[r2].refreshed = "true"

C5_NoTokenNoCall ==
    \A r \in Reqs :
        req[r].tokenValid = "false" =>
            /\ req[r].ep \in Protected
            /\ req[r].pc = "done"
            /\ req[r].resStatus = 401
            /\ req[r].platformCalls = 0

\* an update request was refused with 401 after a failed refresh
C5_Witness ==
    \E r \in Reqs :
        /\ req[r].ep = "PUT /api/video" /\ req[r].tokenValid = "false"
        /\ req[r].resStatus = 401

\* request r arrives in this step
Arrives(r) == req[r].pc = "idle" /\ req'[r].pc # "idle"

\* request r is answered in this step
Responds(r) == req[r].pc # "done" /\ req'[r].pc = "done"

TextEndpoints == {"POST /api/video/comment", "POST /api/comment/reply"}

\* the text is missing, empty or whitespace-only
Blank(x) == ~x.given \/ x.lead + x.body + x.trail = 0 \/ x.body = 0

\* the request's input fails the validation its endpoint documents
InvalidInput(q) ==
    CASE q.ep = "PUT /api/video" ->
            q.title \in {undefined, ""} /\ q.description \in {undefined, ""}
      [] q.ep \in TextEndpoints ->
            Blank(q.text) \/ q.text.lead + q.text.body + q.text.trail > 10000
      [] OTHER -> FALSE

\* C6: an update, add-comment or reply request whose input fails validation is
\* answered 400 without having called ensureValidToken, refreshAccessToken or
\* the platform, and its handling leaves Token State unchanged.
C6_RejectedBeforeTokenCheck ==
    [][\A r \in Reqs :
        Arrives(r) /\ InvalidInput(req'[r]) =>
            /\ req'[r].pc = "done" /\ req'[r].resStatus = 400
            /\ req'[r].ensureCalls = 0
            /\ req'[r].refreshCalls = 0
            /\ req'[r].platformCalls = 0
            /\ credentials' = credentials]_vars

\* a reply with a blank text was answered 400 while Token State held no token
C6_Witness ==
    \E r \in Reqs :
        /\ req[r].ep = "POST /api/comment/reply" /\ req[r].resStatus = 400
        /\ req[r].text.given /\ req[r].text.body = 0
        /\ req[r].ensureCalls = 0
        /\ credentials.access_token = Undefined

\* C7: an add-comment or reply text is rejected with 400 if it is missing,
\* empty, whitespace-only or longer than 10,000 characters; every other
\* text, one of exactly 10,000 characters included, reaches the token check.
C7_TextValidation ==
    \A r \in Reqs :
        req[r].ep \in TextEndpoints =>
            IF Blank(req[r].text) \/ Length(req[r].text) > 10000
            THEN /\ req[r].pc = "done" /\ req[r].resStatus = 400
                 /\ req[r].ensureCalls = 0
            ELSE /\ req[r].ensureCalls = 1
                 /\ req[r].resStatus # 400

\* a text of exactly 10,000 characters, padding included, passed validation
C7_Witness ==
    \E r \in Reqs :
        /\ req[r].ep = "POST /api/video/comment"
        /\ req[r].text.lead = 1 /\ Length(req[r].text) = 10000
        /\ req[r].ensureCalls = 1

\* C8: a request whose platform call failed is caught by its handler, gets one
\* error-tagged Log Entry and an HTTP error response; it never ends without a
\* response or as an unhandled error.
C8_PlatformFailureAnswered ==
    \A r \in Reqs :
        req[r].platformFailed =>
            /\ req[r].pc \in {"catch Log.create", "done"}
            /\ req[r].pc = "done" =>
                   (req[r].resStatus \in Codes /\ req[r].logWrites = 1)

ExpectedStatus(ep, e) ==
    CASE ep \in {"GET /api/video", "PUT /api/video"} -> 500
      [] ep = "POST /api/video/comment" /\ e.code = 400
            /\ "commentsDisabled" \in e.message -> 400
      [] ep = "POST /api/video/comment" /\ e.code = 400
            /\ "commentsDisabled" \notin e.message
            /\ "videoNotFound" \in e.message -> 404
      [] ep = "POST /api/video/comment" /\ e.code = 400
            /\ e.message \cap {"commentsDisabled", "videoNotFound"} = {}
            /\ "forbidden" \in e.message -> 403
      [] ep = "POST /api/video/comment" /\ e.code = 400
            /\ e.message \cap Markers = {} -> 400
      [] ep = "POST /api/video/comment" /\ e.code \in {401, 403} -> e.code
      [] ep = "POST /api/video/comment" /\ e.code \notin {400, 401, 403} -> 500
      [] ep \in {"POST /api/comment/reply", "DELETE /api/comment"}
            /\ e.code \in {400, 401, 403, 404} -> e.code
      [] ep \in {"POST /api/comment/reply", "DELETE /api/comment"}
            /\ e.code \notin {400, 401, 403, 404} -> 500

AppendOnly == Len(log') >= Len(log) /\ SubSeq(log', 1, Len(log)) = log

\* the step appends exactly one entry, error-tagged or not
AppendsEntry(isError) ==
    /\ Len(log') = Len(log) + 1
    /\ log'[Len(log')].hasError = isError

\* the endpoints that record their success
Logged == Protected \cup {"POST /api/notes"}

\* C10 as stated: every request that completes a state-changing operation or
\* ends in a failure has appended a Log Entry when it responds, and the
\* Activity Log is append-only.
C10_EveryOutcomeLogged ==
    [][/\ AppendOnly
       /\ \A r \in Reqs :
            /\ Responds(r)
            /\ req'[r].ep \in Protected \cup {"POST /api/notes"}
            /\ \/ req'[r].resStatus >= 400
               \/ req'[r].resStatus = 200 /\ req'[r].ep # "GET /api/video"
            => req'[r].logWrites >= 1]_vars

\* C10 amended: a request answered 200 appends its success entry in the step
\* that answers it; a protected request answered from its catch block appends
\* an error-tagged entry holding the error message; every other response
\* (400 validation, 401 token, 404 empty list, the handlers that only read,
\* failing notes and OAuth requests) appends nothing; and the Activity Log
\* is append-only.
C10_LoggedOutcomes ==
    [][/\ AppendOnly
       /\ \A r \in Reqs :
            Responds(r) =>
                IF req'[r].resStatus = 200 /\ req'[r].ep \in Logged
                THEN AppendsEntry(FALSE)
                ELSE IF /\ req'[r].ep \in Protected
                        /\ req'[r].platformFailed \/ req[r].pc = "catch Log.create"
                THEN /\ AppendsEntry(TRUE)
                     /\ log'[Len(log')].error = req[r].error.message
                ELSE log' = log]_vars

\* an update was rejected with 400 and left no entry, while a request whose
\* platform call failed left the only entry of the log, an error entry
C10_Witness ==
    \E r1, r2 \in Reqs :
        /\ req[r1].ep = "PUT /api/video" /\ req[r1].resStatus = 400
        /\ req[r1].logWrites = 0
        /\ req[r2].pc = "done" /\ req[r2].platformFailed /\ req[r2].logWrites = 1
        /\ Len(log) = 1 /\ log[1].hasError

\* request r issues a mutating platform call in this step
IssuesMutation(r) ==
    req[r].pc \notin MutatingCalls /\ req'[r].pc \in MutatingCalls

\* C11 as stated: every mutating platform call is issued after a read call of
\* the same request confirmed the resource, and a read that reports nothing
\* is answered 404 with no mutating call.
C11_ReadBeforeEveryMutation ==
    [][\A r \in Reqs :
        /\ IssuesMutation(r) => req[r].pc = "videos.list"
        /\ Responds(r) /\ req[r].pc = "videos.list" /\ req'[r].resStatus = 404
            => req'[r].platformCalls = 1]_vars

\* C11 amended: update and add-comment issue their mutating call only after
\* their videos.list returned an item; reply and delete issue the mutating
\* call as their first platform call, with no read before it; a 404 that is
\* not the answer to a platform error comes from an empty videos.list and
\* that request has issued the read only.
C11_ReadBeforeVideoMutation ==
    [][\A r \in Reqs :
        /\ IssuesMutation(r) =>
              IF req'[r].ep \in {"PUT /api/video", "POST /api/video/comment"}
              THEN req[r].pc = "videos.list" /\ req[r].platformCalls = 1
              ELSE /\ req'[r].ep \in {"POST /api/comment/reply", "DELETE /api/comment"}
                   /\ req[r].platformCalls = 0
        /\ Responds(r) /\ req'[r].resStatus = 404 /\ ~req'[r].platformFailed
            => /\ req[r].pc = "videos.list"
               /\ req'[r].ep \in {"GET /api/video", "PUT /api/video",
                                   "POST /api/video/comment"}
               /\ req'[r].platformCalls = 1]_vars

\* an update was answered 404 after its videos.list found no video
C11_Witness ==
    \E r \in Reqs :
        /\ req[r].ep = "PUT /api/video" /\ req[r].pc = "done"
        /\ req[r].resStatus = 404 /\ ~req[r].platformFailed
        /\ req[r].platformCalls = 1

\* request s deleted comment id and answered 200
Deleted(s, id) ==
    /\ req[s].ep = "DELETE /api/comment" /\ req[s].id = id
    /\ req[s].pc = "done" /\ req[s].resStatus = 200

\* request r asked to delete a comment that an answered DELETE had already
\* deleted, and the platform reported 404 for it
SecondDelete(r) ==
    /\ req[r].ep = "DELETE /api/comment"
    /\ req[r].pc = "catch Log.create"
    /\ req[r].platformFailed /\ req[r].error.code = 404
    /\ \E s \in Reqs \ {r} : Deleted(s, req[r].id)

\* C12: a second DELETE of a comment that a first DELETE removed with a 200,
\* the platform reporting 404, answers 404 and records a DELETE_COMMENT_ERROR
\* entry.
C12_SecondDeleteAnswers404 ==
    [][\A r \in Reqs :
        SecondDelete(r) /\ req'[r] # req[r] =>
            /\ req'[r].pc = "done" /\ req'[r].resStatus = 404
            /\ Len(log') = Len(log) + 1
            /\ log'[Len(log')].action = "DELETE_COMMENT_ERROR"]_vars

\* C13: once Token State holds a refresh_token every later state holds one;
\* no step of the process clears it.
C13_RefreshTokenKept ==
    [][credentials.refresh_token # Undefined =>
           credentials'.refresh_token # Undefined]_vars

\* C14 as stated: after startup Token State is changed only by the refresh
\* operation; every other step, /oauth2callback included, leaves it unchanged.
C14_OnlyRefreshChanges ==
    [][credentials' # credentials => \E r \in Reqs : RefreshReturns(r)]_vars

\* the exchange of an OAuth callback resolves for request r in this step
ExchangeResolves(r) ==
    /\ req[r].ep = "GET /oauth2callback" /\ req[r].pc = "getToken"
    /\ req'[r].resStatus = 302

\* C14 amended: Token State is changed only by a refresh that succeeds and by
\* an OAuth callback whose code exchange succeeds; every other step (a failed
\* refresh, a failed exchange, /login, health, notes, logs, every other
\* handler step and the passing of time) leaves it unchanged.
C14_ChangedByRefreshOrCallback ==
    [][credentials' # credentials =>
          \E r \in Reqs :
              \/ RefreshReturns(r) /\ req'[r].refreshed = "true"
              \/ ExchangeResolves(r)]_vars

\* an OAuth callback stored an access token though no request ever refreshed
C14_Witness ==
    /\ credentials.access_token # Undefined
    /\ \A r \in Reqs : req[r].refreshCalls = 0
    /\ \E r \in Reqs : req[r].ep = "GET /oauth2callback" /\ req[r].resStatus = 302

\* the external calls a request can be waiting for
ExternalCalls == {"refreshAccessToken", "getToken", "videos.list",
                  "Note.create", "Note.find", "Log.find", "Log.create",
                  "catch Log.create"} \cup MutatingCalls

\* how far the handling of a request has got: every external call of a
\* handler comes after the calls that precede it in the handler's code
Rank(pc) ==
    CASE pc = "idle" -> 0
      [] pc \in {"refreshAccessToken", "getToken", "Note.create", "Note.find",
                 "Log.find"} -> 1
      [] pc = "videos.list" -> 2
      [] pc \in MutatingCalls -> 3
      [] pc = "Log.create" -> 4
      [] pc = "catch Log.create" -> 5
      [] pc \in {"done", "unhandledRejection"} -> 6

\* C15: within the handling of one request every external call is attempted
\* once on the path that reaches it and never again: each step of a request
\* moves it forward to a later call or to its end, a failed call is followed
\* only by the error-entry write or the response, and the refresh is
\* attempted at most once.
C15_NoRetry ==
    [][\A r \in Reqs :
        req'[r] # req[r] =>
            /\ Rank(req'[r].pc) > Rank(req[r].pc)
            /\ req'[r].pc \in ExternalCalls \cup {"done", "unhandledRejection"}
            /\ req'[r].refreshCalls =
                   (IF req'[r].pc = "refreshAccessToken" THEN 1 ELSE req[r].refreshCalls)
            /\ req'[r].refreshCalls <= 1 /\ req'[r].logWrites <= 1
            /\ (req[r].refreshed = "unset" /\ req'[r].refreshed = "false") =>
                   req'[r].pc = "done"
            /\ (~req[r].platformFailed /\ req'[r].platformFailed) =>
                   req'[r].pc = "catch Log.create"
            /\ (req[r].pc \in {"Log.create", "Note.create"} /\ req'[r].logWrites = req[r].logWrites
                   /\ req'[r].pc # "Log.create") =>
                   req'[r].pc \in {"catch Log.create", "done"}
            /\ (req[r].pc = "catch Log.create" /\ req'[r].logWrites = req[r].logWrites) =>
                   req'[r].pc = "unhandledRejection"]_vars

\* one request was refused after its only refresh failed, another ended after
\* its only platform call failed
C15_Witness ==
    \E r1, r2 \in Reqs :
        /\ req[r1].pc = "done" /\ req[r1].refreshed = "false"
        /\ req[r1].refreshCalls = 1 /\ req[r1].resStatus = 401
        /\ req[r2].pc = "done" /\ req[r2].platformFailed
        /\ req[r2].platformCalls = 1 /\ req[r2].logWrites = 1

\* C16: Token State has no mutual exclusion. A protected request that finds
\* the token absent or expired starts its own refresh even while the refresh
\* of another request is in flight, and every refresh that succeeds
\* overwrites Token State with the credentials it obtained, whatever an
\* earlier refresh stored: the refresh that completes last decides.
C16_LastRefreshWins ==
    [][\A r \in Reqs :
        /\ (/\ Arrives(r) /\ CallsEnsure(r)
            /\ ~Usable(credentials, now)
            /\ \E s \in Reqs \ {r} : req[s].pc = "refreshAccessToken")
           => req'[r].pc = "refreshAccessToken"
        /\ (RefreshReturns(r) /\ req'[r].refreshed = "true")
           => /\ credentials'.access_token \in Tokens
              /\ credentials'.expiry_date \in Expiries(now)
              /\ credentials'.refresh_token = credentials.refresh_token]_vars

\* both requests found no usable token, had their refreshes in flight together
\* (no time passed since the first began) and both refreshes succeeded
C16_Witness ==
    /\ now = 1
    /\ \A r \in Reqs : req[r].refreshCalls = 1 /\ req[r].refreshed = "true"

\* sequence b holds the entries of sequence l, each as often as l does
SameEntries(b, l) ==
    /\ Len(b) = Len(l)
    /\ \A e \in {l[i] : i \in 1..Len(l)} :
          Cardinality({i \in 1..Len(b) : b[i] = e}) =
          Cardinality({i \in 1..Len(l) : l[i] = e})

\* the createdAt of l strictly increase
StrictlyLater(l) == \A i \in 1..(Len(l) - 1) : l[i].createdAt < l[i + 1].createdAt

\* C17: a GET /api/logs answered 200 returns all the entries of the Activity
\* Log, an entry never before one created later; entries created at
\* t1 < t2 < t3 come back in the order [t3, t2, t1].
C17_NewestFirst ==
    [][\A r \in Reqs :
        (Responds(r) /\ req'[r].ep = "GET /api/logs" /\ req'[r].resStatus = 200) =>
            LET b == req'[r].resBody
            IN  /\ SameEntries(b, log)
                /\ \A i, j \in 1..Len(b) : i < j => b[i].createdAt >= b[j].createdAt
                /\ StrictlyLater(log) =>
                      \A i \in 1..Len(b) : b[i] = log[Len(log) + 1 - i]]_vars

\* three entries created at three different times came back newest first
C17_Witness ==
    \E r \in Reqs :
        /\ req[r].ep = "GET /api/logs" /\ req[r].resStatus = 200
        /\ Len(log) = 3 /\ StrictlyLater(log)
        /\ req[r].resBody = <<log[3], log[2], log[1]>>

\* the text contains the string q, the case of letters being ignored
ContainsIgnoreCase(q, text) ==
    \E i \in 1..(Len(text) + 1) :
        /\ i + Len(q) - 1 <= Len(text)
        /\ \A k \in 1..Len(q) : Lower(q[k]) = Lower(text[i + k - 1])

\* C18: a GET /api/notes answered 200 returns exactly the notes whose text
\* contains q, case ignored, and all the notes when q is omitted.
C18_ExactlyTheNotesContaining ==
    [][\A r \in Reqs :
        (Responds(r) /\ req'[r].ep = "GET /api/notes" /\ req'[r].resStatus = 200) =>
            req'[r].resBody =
                IF ~req[r].q.given THEN notes
                ELSE SelectSeq(notes,
                         LAMBDA n : ContainsIgnoreCase(req[r].q.chars, n.text))]_vars

\* C19: a failed refresh is not terminal. Whatever happened before, a
\* protected request that finds no usable token attempts a refresh; and when
\* requests keep arriving and the provider does not fail for ever, a Token
\* State that holds a refresh token but no usable access token leads to a
\* usable access token with a request at its platform call.
C19_FailureNotTerminal ==
    /\ [][\A r \in Reqs :
            (Arrives(r) /\ CallsEnsure(r) /\ ~Usable(credentials, now))
                => /\ req'[r].pc = "refreshAccessToken"
                   /\ req'[r].refreshCalls = 1]_vars
    /\ (credentials.refresh_token # Undefined /\ ~Usable(credentials, now))
         ~> (/\ Usable(credentials, now)
             /\ \E r \in Reqs : /\ req[r].pc \in {"videos.list", "comments.delete"}
                                /\ req[r].refreshed = "true")

\* one request was refused after a failed refresh, and the refresh of another
\* then succeeded and let it reach its platform call
C19_Witness ==
    \E r1, r2 \in Reqs :
        /\ req[r1].pc = "done" /\ req[r1].refreshed = "false" /\ req[r1].resStatus = 401
        /\ req[r2].pc \in {"videos.list", "comments.delete"}
        /\ req[r2].refreshed = "true"
        /\ Usable(credentials, now)

\* C20: PUT /api/video/:id rejects a body with neither title nor description
\* with 400; otherwise the snippet it sends to videos.update is the current
\* snippet with the title replaced if a title was supplied and the
\* description replaced if a description was supplied, every other field
\* keeping its current value.
C20_SuppliedFieldsReplaced ==
    [][\A r \in Reqs :
        /\ (/\ Arrives(r) /\ req'[r].ep = "PUT /api/video"
            /\ req'[r].title = undefined /\ req'[r].description = undefined)
           => req'[r].pc = "done" /\ req'[r].resStatus = 400
        /\ (req[r].pc # "videos.update" /\ req'[r].pc = "videos.update")
           => req'[r].snippet =
                 [CurrentSnippet EXCEPT
                     !.title = IF req[r].title # undefined THEN req[r].title ELSE @,
                     !.description =
                         IF req[r].description # undefined THEN req[r].description
                         ELSE @]]_vars

\* the endpoints that change the platform or the Note collection
Mutating == {"PUT /api/video", "POST /api/video/comment",
             "POST /api/comment/reply", "DELETE /api/comment", "POST /api/notes"}

\* the tag of the Log Entry that records the success of a mutating endpoint
TagOfSuccess(ep) ==
    CASE ep = "PUT /api/video" -> "UPDATE_VIDEO"
      [] ep = "POST /api/video/comment" -> "ADD_COMMENT"
      [] ep = "POST /api/comment/reply" -> "REPLY_COMMENT"
      [] ep = "DELETE /api/comment" -> "DELETE_COMMENT"
      [] ep = "POST /api/notes" -> "ADD_NOTE"

\* the write of the success entry of request r fails in this step
SuccessWriteFails(r) ==
    req[r].pc = "Log.create" /\ req'[r] # req[r] /\ log' = log

\* C21: a mutating endpoint answers 200 only in the step in which the write of
\* its success-tagged Log Entry completes; when that write fails after the
\* mutation was applied the request is not answered 200, neither then nor
\* later, and the mutation stays applied.
C21_SuccessAnsweredAfterLog ==
    [][\A r \in Reqs :
        req'[r].ep \in Mutating =>
            /\ (Responds(r) /\ req'[r].resStatus = 200) =>
                  /\ req[r].pc = "Log.create"
                  /\ Len(log') = Len(log) + 1
                  /\ log'[Len(log')].action = TagOfSuccess(req'[r].ep)
                  /\ ~log'[Len(log')].hasError
            /\ SuccessWriteFails(r) =>
                  /\ req'[r].pc \in {"catch Log.create", "done"}
                  /\ req'[r].pc = "done" => req'[r].resStatus = 500
                  /\ comments' = comments /\ notes' = notes
            /\ (Responds(r) /\ req[r].pc = "catch Log.create") =>
                  req'[r].resStatus # 200]_vars

\* a DELETE removed its comment on the platform, the write of its
\* DELETE_COMMENT entry failed, and it was answered 500
C21_Witness ==
    \E r \in Reqs :
        /\ req[r].ep = "DELETE /api/comment" /\ req[r].pc = "done"
        /\ ~req[r].platformFailed /\ req[r].platformCalls = 1
        /\ req[r].resStatus = 500
        /\ req[r].id \notin comments
        /\ \A i \in 1..Len(log) : log[i].action # "DELETE_COMMENT"
====
